---- MODULE Spec2Model ----
(***************************************************************************)
(* Model of SyncLruCache (src/cache.rs): a bounded LRU store that writes   *)
(* its whole contents to a JSON snapshot file after every put, through a   *)
(* temporary file that is renamed onto the destination.                    *)
(*                                                                         *)
(* The store is a sequence of entries, most recently used first, which is  *)
(* the order LruCache::iter yields.  A file is a sequence of JSON tokens,  *)
(* so that truncated and malformed documents exist in the model.  A put is *)
(* a sequence of steps (LruCache::put, open, serialize, write, rename);    *)
(* each I/O step can fail and the process can end between any two steps.   *)
(***************************************************************************)
EXTENDS Integers, Sequences, FiniteSets

(* ------------------------------ bounds --------------------------------- *)

\* largest capacity handed to SyncLruCache::new
MaxCap == 2
\* largest number of entries of a snapshot file found at start-up
MaxFileLen == 3
\* number of touches (LruCache put/get/get_mut hits) explored
MaxClock == 4
\* number of injected faults (failed I/O steps, process deaths) explored
MaxFaults == 1

Keys == {"apple", "banana", "pear"}
Vals == {1, 2}
\* Option::None
None == 0

(* --------------------------- CacheEntry<T> ------------------------------ *)

CacheEntry(k, v) == [key |-> k, value |-> v]

Entries == {CacheEntry(k, v) : k \in Keys, v \in Vals}

(* ---------------------- lru::LruCache<String, T> ------------------------ *)

KeySet(c) == {c[i].key : i \in 1..Len(c)}

Contains(c, k) == k \in KeySet(c)

\* the value stored under k, None when k is absent (LruCache::peek)
Peek(c, k) ==
    IF Contains(c, k)
    THEN (CHOOSE e \in {c[i] : i \in 1..Len(c)} : e.key = k).value
    ELSE None

\* the key -> value mapping of the store, without the recency order
Mapping(c) == {c[i] : i \in 1..Len(c)}

Without(c, k) == SelectSeq(c, LAMBDA e : e.key # k)

\* LruCache::put without the capacity check
LruPutUnbounded(c, n, k, v) ==
    IF Contains(c, k) THEN <<CacheEntry(k, v)>> \o Without(c, k)
    ELSE <<CacheEntry(k, v)>> \o c

\* LruCache::put without the lookup of the key: every put adds an entry
LruPutNoLookup(c, n, k, v) ==
    IF Len(c) >= n THEN <<CacheEntry(k, v)>> \o SubSeq(c, 1, n - 1)
    ELSE <<CacheEntry(k, v)>> \o c

\* LruCache::put: an existing key is updated and moved to the front; a new
\* key is put at the front after the back entry is dropped from a full cache
LruPut(c, n, k, v) ==
    IF Contains(c, k) THEN <<CacheEntry(k, v)>> \o Without(c, k)
    ELSE IF Len(c) >= n THEN <<CacheEntry(k, v)>> \o SubSeq(c, 1, n - 1)
    ELSE <<CacheEntry(k, v)>> \o c

\* what LruCache::push returns: the value k had, or the value it evicted
LruPushResult(c, n, k, v) ==
    IF Contains(c, k) THEN Peek(c, k)
    ELSE IF Len(c) >= n /\ Len(c) > 0 THEN c[Len(c)].value
    ELSE None

\* what LruCache::put returns: the value k had, None for a new key
LruPutResult(c, n, k, v) == Peek(c, k)

\* a lookup that takes the entry out of the cache (LruCache::pop)
LruPop(c, k) == Without(c, k)

\* a lookup that leaves the recency order alone (LruCache::peek)
LruGetNoPromote(c, k) == c

\* LruCache::get / LruCache::get_mut: a hit moves the entry to the front
LruGet(c, k) ==
    IF Contains(c, k) THEN <<CacheEntry(k, Peek(c, k))>> \o Without(c, k)
    ELSE c

\* the store after the caller of get_mut wrote w through the reference
Store(c, k, w) == [i \in 1..Len(c) |-> IF c[i].key = k THEN CacheEntry(k, w) ELSE c[i]]

(* --------------------------- snapshot codec ----------------------------- *)

\* JSON tokens: brackets, the comma, a {"key":..,"value":..} object, and an
\* object that lacks its value field
LB == <<"[", "", None>>
RB == <<"]", "", None>>
COMMA == <<",", "", None>>
Obj(e) == <<"{}", e.key, e.value>>
BadObj(k) == <<"{}", k, None>>

RECURSIVE Join(_)
Join(es) ==
    IF Len(es) = 0 THEN <<>>
    ELSE IF Len(es) = 1 THEN <<Obj(es[1])>>
    ELSE <<Obj(es[1]), COMMA>> \o Join(Tail(es))

\* serde_json::to_string(&entries)
ToJson(es) == <<LB>> \o Join(es) \o <<RB>>

IsObj(t) == t[1] = "{}" /\ t[2] \in Keys /\ t[3] \in Vals

\* a parser that stops at the end of the input without asking for the
\* closing bracket
WellFormedLax(doc) == Len(doc) >= 1 /\ doc[1] = LB

\* serde_json::from_str accepts the document
WellFormed(doc) ==
    /\ Len(doc) >= 2
    /\ doc[1] = LB
    /\ doc[Len(doc)] = RB
    /\ \/ Len(doc) = 2
       \/ /\ Len(doc) % 2 = 1
          /\ \A i \in 2..(Len(doc) - 1) :
                IF i % 2 = 0 THEN IsObj(doc[i]) ELSE doc[i] = COMMA

\* serde_json::from_str::<Vec<CacheEntry<T>>>: the entries in document order
FromStr(doc) ==
    [i \in 1..((Len(doc) - 1) \div 2) |-> CacheEntry(doc[2 * i][2], doc[2 * i][3])]

\* the loop of SyncLruCache::new with the cache created anew for every entry
ReplayLastOnly(c, n, es) ==
    IF Len(es) = 0 THEN c
    ELSE LruPut(<<>>, n, es[Len(es)].key, es[Len(es)].value)

\* the loop of SyncLruCache::new leaving the loop once the cache is full
ReplayUntilFull(c, n, es) ==
    LET m == IF Len(es) < n THEN Len(es) ELSE n
    IN [i \in 1..m |-> es[m + 1 - i]] \o c

\* the loop of SyncLruCache::new: entries are put in file order
RECURSIVE Replay(_, _, _)
Replay(c, n, es) ==
    IF Len(es) = 0 THEN c
    ELSE Replay(LruPut(c, n, es[1].key, es[1].value), n, Tail(es))

(* ------------------------------- state ---------------------------------- *)

VARIABLES
    cache,    \* SyncLruCache.cache, most recently used entry first
    cap,      \* the capacity given to LruCache::new
    pc,       \* "none": no store; "idle"; or the step a put has reached
    file,     \* the file at file_path
    tmp,      \* the file at file_path + ".tmp"
    op,       \* the call in progress, or the last call made
    ret,      \* what the last finished call returned
    stamp,    \* sequence number of the last touch of each key (0: no entry)
    clock,    \* the last sequence number handed out
    lastMut,  \* how the key -> value mapping was last changed in this store
    prev,     \* the store as it was when the process last ended (until the next call)
    faults    \* number of faults injected so far

vars == <<cache, cap, pc, file, tmp, op, ret, stamp, clock, lastMut, prev, faults>>

\* the Concurrent Store and the threads that call its put
VARIABLES
    store,    \* the shared in-memory mapping: key -> value, None for no entry
    writers,  \* per thread: the step its put has reached and what it holds
    disk      \* the inodes, and which of them file_path and the temporary path name

concVars == <<store, writers, disk>>

\* the bucket list page: the fields of BucketListPage, and the keys handled
VARIABLES
    bucket_items,        \* the names of the buckets, in the order given to new
    view_indices,        \* indices (from 0) into bucket_items of the items shown
    view_state,          \* "Default", "FilterDialog" or "SortDialog"
    list_state,          \* ScrollListState: the selected row and the number of rows
    filter_input_state,  \* InputDialogState: the text typed into the filter
    sort_dialog_state,   \* BucketListSortDialogState: the highlighted sort type
    tx,                  \* the event the last key sent, "none" when it sent none
    key,                 \* the last key handled
    was                  \* view state, sort type, filter text and key before that key

pageVars == <<bucket_items, view_indices, view_state, list_state, filter_input_state,
              sort_dialog_state, tx, key, was>>

NoFile == [exists |-> FALSE, readable |-> FALSE, data |-> <<>>]
FileOf(doc, r) == [exists |-> TRUE, readable |-> r, data |-> doc]

NoOp == [name |-> "none", key |-> "", value |-> None, result |-> None]
NoRet == [status |-> "none", value |-> None, step |-> "none"]
Ok(v) == [status |-> "ok", value |-> v, step |-> "none"]
Err(kind, step) == [status |-> kind, value |-> None, step |-> step]

NoStamp == [k \in Keys |-> 0]

NoPrev == [cache |-> <<>>, cap |-> 0, lastMut |-> "none", pc |-> "none"]

InPut == pc \in {"open", "serialize", "write", "rename"}

(* ------------------------- files found at start-up ---------------------- *)

\* key names are interchangeable, so the files found at start-up are listed
\* up to a renaming of the keys: the first key met is apple, the next new
\* one banana, then pear
FirstUse(es) ==
    \A i \in 1..Len(es) :
        /\ es[i].key = "banana" => \E j \in 1..(i - 1) : es[j].key = "apple"
        /\ es[i].key = "pear" => \E j \in 1..(i - 1) : es[j].key = "banana"

\* snapshots left by an earlier run: up to MaxFileLen entries, a key may
\* occur more than once
EntrySeqs ==
    {es \in UNION {[1..n -> {CacheEntry(k, 1) : k \in Keys}] : n \in 0..MaxFileLen} : FirstUse(es)}

ValidDocs ==
    {ToJson(es) : es \in EntrySeqs}
        \cup {ToJson(<<CacheEntry("apple", 1), CacheEntry("apple", 2)>>)}

\* a snapshot cut short, the empty file included
TruncatedDocs == {SubSeq(ToJson(<<CacheEntry("apple", 1)>>), 1, n) : n \in 0..2}

\* a value field missing, a comma missing, text after the closing bracket
MalformedDocs ==
    LET e == CacheEntry("apple", 1)
    IN {<<LB, BadObj("apple"), RB>>, <<LB, Obj(e), Obj(e), RB>>, <<LB, Obj(e), RB, RB>>}

\* a file that open() refuses (permission denied), whatever it holds
UnreadableDocs ==
    {<<>>, ToJson(<<CacheEntry("apple", 1)>>), <<LB, BadObj("apple"), RB>>}

InitFiles ==
    {NoFile}
        \cup {FileOf(d, TRUE) : d \in ValidDocs \cup TruncatedDocs \cup MalformedDocs}
        \cup {FileOf(d, FALSE) : d \in UnreadableDocs}

\* no Concurrent Store was built
NoConcurrentStore ==
    /\ store = <<>>
    /\ writers = <<>>
    /\ disk = <<>>

\* no bucket list page was built
NoPage ==
    /\ bucket_items = <<>>
    /\ view_indices = <<>>
    /\ view_state = "none"
    /\ list_state = <<>>
    /\ filter_input_state = <<>>
    /\ sort_dialog_state = "none"
    /\ tx = "none"
    /\ key = "none"
    /\ was = <<>>

Init ==
    /\ cache = <<>>
    /\ cap = 0
    /\ pc = "none"
    /\ file \in InitFiles
    /\ tmp = NoFile
    /\ op = NoOp
    /\ ret = NoRet
    /\ stamp = NoStamp
    /\ clock = 0
    /\ lastMut = "none"
    /\ prev = NoPrev
    /\ faults = 0
    /\ NoConcurrentStore
    /\ NoPage

(* --------------------------- SyncLruCache::new -------------------------- *)

\* position of the last entry for key k in es, 0 when there is none
LastIndex(es, k) ==
    IF \E i \in 1..Len(es) : es[i].key = k
    THEN CHOOSE i \in 1..Len(es) : es[i].key = k /\ \A j \in (i + 1)..Len(es) : es[j].key # k
    ELSE 0

\* stamps after the entries es were put one by one, starting at clock t
ReplayStamp(c, es, t) ==
    [k \in Keys |-> IF Contains(c, k) THEN t + LastIndex(es, k) ELSE 0]

\* an else branch that loads what a put left in the temporary file
NewFromTmp(size) ==
    /\ cache' = IF tmp.exists /\ WellFormed(tmp.data)
                THEN Replay(<<>>, size, FromStr(tmp.data))
                ELSE <<>>
    /\ cap' = size
    /\ pc' = "idle"
    /\ ret' = Ok(None)
    /\ stamp' = NoStamp
    /\ UNCHANGED <<clock, faults>>

\* File::open failed: the else branch, LruCache::new(size)
NewEmpty(size) ==
    /\ cache' = <<>>
    /\ cap' = size
    /\ pc' = "idle"
    /\ ret' = Ok(None)
    /\ stamp' = NoStamp
    /\ UNCHANGED <<clock, faults>>

New(size) ==
    /\ pc = "none"
    /\ op' = [name |-> "new", key |-> "", value |-> size, result |-> None]
    /\ lastMut' = "none"
    /\ UNCHANGED <<file, tmp, prev>>
    /\ IF ~(file.exists /\ file.readable)
       THEN NewEmpty(size)
       ELSE \E readFails \in {FALSE, faults < MaxFaults} :
            IF readFails
            THEN /\ ret' = Err("io_error", "read")
                 /\ faults' = faults + 1
                 /\ UNCHANGED <<cache, cap, pc, stamp, clock>>
            ELSE IF ~WellFormed(file.data)
            THEN /\ ret' = Err("decode_error", "from_str")
                 /\ UNCHANGED <<cache, cap, pc, stamp, clock, faults>>
            ELSE LET es == FromStr(file.data)
                     c == Replay(<<>>, size, es)
                 IN /\ clock + Len(es) <= MaxClock
                    /\ cache' = c
                    /\ cap' = size
                    /\ pc' = "idle"
                    /\ ret' = Ok(None)
                    /\ stamp' = ReplayStamp(c, es, clock)
                    /\ clock' = clock + Len(es)
                    /\ UNCHANGED faults

(* --------------------------- SyncLruCache::put -------------------------- *)

\* stamps after key k was touched in a store that became c
Touch(c, k) ==
    [j \in Keys |-> IF j = k THEN clock + 1 ELSE IF Contains(c, j) THEN stamp[j] ELSE 0]

\* let result = self.cache.put(key.clone(), value);
PutBegin(k, v) ==
    /\ pc = "idle"
    /\ clock < MaxClock
    /\ op' = [name |-> "put", key |-> k, value |-> v, result |-> LruPutResult(cache, cap, k, v)]
    /\ cache' = LruPut(cache, cap, k, v)
    /\ stamp' = Touch(cache', k)
    /\ clock' = clock + 1
    /\ pc' = "open"
    /\ ret' = NoRet
    /\ prev' = NoPrev
    /\ UNCHANGED <<cap, file, tmp, lastMut, faults>>

\* a failed step of sync_to_file that starts sync_to_file again
PutFailsRetry(step) ==
    /\ faults < MaxFaults
    /\ faults' = faults + 1
    /\ pc' = "open"
    /\ UNCHANGED <<ret, lastMut>>

\* a step of sync_to_file failed: the ? operator returns the error from put
PutFails(step) ==
    /\ faults < MaxFaults
    /\ faults' = faults + 1
    /\ pc' = "idle"
    /\ ret' = Err("io_error", step)
    /\ lastMut' = "put_err"

\* sync_to_file opening file_path itself instead of the temporary path
OpenInPlace ==
    /\ pc = "open"
    /\ \E ok \in BOOLEAN :
        IF ok
        THEN /\ file' = [exists |-> TRUE, readable |-> TRUE, data |-> <<>>]
             /\ tmp' = [exists |-> TRUE, readable |-> TRUE, data |-> <<>>]
             /\ pc' = "serialize"
             /\ UNCHANGED <<ret, lastMut, faults>>
        ELSE /\ PutFails("open")
             /\ UNCHANGED <<file, tmp>>
    /\ UNCHANGED <<cache, cap, op, stamp, clock, prev>>

\* the temporary file opened without truncate(true)
OpenTmpKeep ==
    /\ pc = "open"
    /\ \E ok \in BOOLEAN :
        IF ok
        THEN /\ tmp' = [exists |-> TRUE, readable |-> TRUE, data |-> tmp.data]
             /\ pc' = "serialize"
             /\ UNCHANGED <<ret, lastMut, faults>>
        ELSE /\ PutFails("open")
             /\ UNCHANGED tmp
    /\ UNCHANGED <<cache, cap, file, op, stamp, clock, prev>>

\* OpenOptions::new().write(true).create(true).truncate(true).open(temp_file_path)
OpenTmp ==
    /\ pc = "open"
    /\ \E ok \in BOOLEAN :
        IF ok
        THEN /\ tmp' = [exists |-> TRUE, readable |-> TRUE, data |-> <<>>]
             /\ pc' = "serialize"
             /\ UNCHANGED <<ret, lastMut, faults>>
        ELSE /\ PutFails("open")
             /\ UNCHANGED tmp
    /\ UNCHANGED <<cache, cap, file, op, stamp, clock, prev>>

\* a snapshot that lists the least recently used entry first
JsonLruFirst == ToJson([i \in 1..Len(cache) |-> cache[Len(cache) + 1 - i]])

\* the bytes sync_to_file writes: the entries in the order of cache.iter()
Json == ToJson(cache)

\* serde_json::to_string(&entries)
Serialize ==
    /\ pc = "serialize"
    /\ \E ok \in BOOLEAN :
        IF ok
        THEN /\ pc' = "write"
             /\ UNCHANGED <<ret, lastMut, faults>>
        ELSE PutFails("serialize")
    /\ UNCHANGED <<cache, cap, file, tmp, op, stamp, clock, prev>>

\* how much of the document a write call may have taken when it returns:
\* half of it (a short write) or all of it
Cuts(doc) == {Len(doc) \div 2, Len(doc)}

\* file.write_all(json.as_bytes()): the bytes arrive in one or two writes,
\* either of which can fail
WriteAll ==
    /\ pc = "write"
    /\ \/ \E n \in {m \in Cuts(Json) : m > Len(tmp.data)} :
            /\ tmp' = [tmp EXCEPT !.data = SubSeq(Json, 1, n)]
            /\ pc' = IF n = Len(Json) THEN "rename" ELSE "write"
            /\ UNCHANGED <<ret, lastMut, faults>>
       \/ /\ PutFails("write")
          /\ UNCHANGED tmp
    /\ UNCHANGED <<cache, cap, file, op, stamp, clock, prev>>

\* rename with its two arguments exchanged
RenameSwapped ==
    /\ pc = "rename"
    /\ \E ok \in BOOLEAN :
        IF ok
        THEN /\ tmp' = file
             /\ file' = NoFile
             /\ pc' = "idle"
             /\ ret' = Ok(op.result)
             /\ lastMut' = "put_ok"
             /\ UNCHANGED faults
        ELSE /\ PutFails("rename")
             /\ UNCHANGED <<file, tmp>>
    /\ UNCHANGED <<cache, cap, op, stamp, clock, prev>>

\* std::fs::rename(temp_file_path, &self.file_path), then Ok(result)
Rename ==
    /\ pc = "rename"
    /\ \E ok \in BOOLEAN :
        IF ok
        THEN /\ file' = tmp
             /\ tmp' = NoFile
             /\ pc' = "idle"
             /\ ret' = Ok(op.result)
             /\ lastMut' = "put_ok"
             /\ UNCHANGED faults
        ELSE /\ PutFails("rename")
             /\ UNCHANGED <<file, tmp>>
    /\ UNCHANGED <<cache, cap, op, stamp, clock, prev>>

(* ------------------- SyncLruCache::get and get_mut ---------------------- *)

Get(k) ==
    /\ pc = "idle"
    /\ Contains(cache, k) => clock < MaxClock
    /\ op' = [name |-> "get", key |-> k, value |-> None, result |-> None]
    /\ cache' = LruGet(cache, k)
    /\ ret' = Ok(Peek(cache, k))
    /\ IF Contains(cache, k)
       THEN stamp' = Touch(cache', k) /\ clock' = clock + 1
       ELSE UNCHANGED <<stamp, clock>>
    /\ prev' = NoPrev
    /\ UNCHANGED <<cap, pc, file, tmp, lastMut, faults>>

\* a get_mut that writes the snapshot again once the caller has stored w
GetMutSynced(k) ==
    /\ pc = "idle"
    /\ Contains(cache, k) => clock < MaxClock
    /\ op' = [name |-> "get_mut", key |-> k, value |-> None, result |-> None]
    /\ ret' = Ok(Peek(cache, k))
    /\ IF Contains(cache, k)
       THEN \E w \in Vals :
            /\ cache' = Store(LruGet(cache, k), k, w)
            /\ stamp' = Touch(cache', k)
            /\ clock' = clock + 1
            /\ lastMut' = IF w # Peek(cache, k) THEN "get_mut" ELSE lastMut
            /\ file' = [exists |-> TRUE, readable |-> TRUE, data |-> ToJson(cache')]
       ELSE UNCHANGED <<cache, stamp, clock, lastMut, file>>
    /\ prev' = NoPrev
    /\ UNCHANGED <<cap, pc, tmp, faults>>

\* a get_mut that looks the entry up without moving it (LruCache::peek_mut)
GetMutNoPromote(k) ==
    /\ pc = "idle"
    /\ Contains(cache, k) => clock < MaxClock
    /\ op' = [name |-> "get_mut", key |-> k, value |-> None, result |-> None]
    /\ ret' = Ok(Peek(cache, k))
    /\ IF Contains(cache, k)
       THEN \E w \in Vals :
            /\ cache' = Store(cache, k, w)
            /\ stamp' = Touch(cache', k)
            /\ clock' = clock + 1
            /\ lastMut' = IF w # Peek(cache, k) THEN "get_mut" ELSE lastMut
       ELSE UNCHANGED <<cache, stamp, clock, lastMut>>
    /\ prev' = NoPrev
    /\ UNCHANGED <<cap, pc, file, tmp, faults>>

\* get_mut, and the caller storing some w through the reference it was given
\* (w equal to the stored value: the caller only looked)
GetMut(k) ==
    /\ pc = "idle"
    /\ Contains(cache, k) => clock < MaxClock
    /\ op' = [name |-> "get_mut", key |-> k, value |-> None, result |-> None]
    /\ ret' = Ok(Peek(cache, k))
    /\ IF Contains(cache, k)
       THEN \E w \in Vals :
            /\ cache' = Store(LruGet(cache, k), k, w)
            /\ stamp' = Touch(cache', k)
            /\ clock' = clock + 1
            /\ lastMut' = IF w # Peek(cache, k) THEN "get_mut" ELSE lastMut
       ELSE UNCHANGED <<cache, stamp, clock, lastMut>>
    /\ prev' = NoPrev
    /\ UNCHANGED <<cap, pc, file, tmp, faults>>

(* ------------------------------ environment ----------------------------- *)

\* the process ends, at any point; the store is gone and the files stay
Crash ==
    /\ pc # "none"
    /\ faults < MaxFaults
    /\ faults' = faults + 1
    /\ prev' = [cache |-> cache, cap |-> cap, lastMut |-> lastMut, pc |-> pc]
    /\ pc' = "none"
    /\ cache' = <<>>
    /\ cap' = 0
    /\ stamp' = NoStamp
    /\ lastMut' = "none"
    /\ op' = NoOp
    /\ ret' = NoRet
    /\ UNCHANGED <<file, tmp, clock>>

Next ==
    \/ (\E size \in 1..MaxCap : New(size)) /\ UNCHANGED <<concVars, pageVars>>
    \/ (\E k \in Keys, v \in Vals : PutBegin(k, v)) /\ UNCHANGED <<concVars, pageVars>>
    \/ OpenTmp /\ UNCHANGED <<concVars, pageVars>>
    \/ Serialize /\ UNCHANGED <<concVars, pageVars>>
    \/ WriteAll /\ UNCHANGED <<concVars, pageVars>>
    \/ Rename /\ UNCHANGED <<concVars, pageVars>>
    \/ (\E k \in Keys : Get(k)) /\ UNCHANGED <<concVars, pageVars>>
    \/ (\E k \in Keys : GetMut(k)) /\ UNCHANGED <<concVars, pageVars>>
    \/ Crash /\ UNCHANGED <<concVars, pageVars>>

Spec == Init /\ [][Next]_vars

(* ------------------------- steps, as seen from outside ------------------ *)

\* the step in which put applies LruCache::put, and the key it is given
PutStep == pc = "idle" /\ pc' = "open"

\* a step of get: no other step leaves op naming a get
GetStep == op'.name = "get"

\* a step of new
NewStep == op'.name = "new"

\* the entries a document decodes to, as a set
Decoded(doc) == Mapping(FromStr(doc))

\* doc is the JSON text of some list of entries
IsSnapshot(doc) ==
    \E n \in 0..(Len(doc) \div 2) : \E es \in [1..n -> Entries] : ToJson(es) = doc

\* keys of the snapshot on disk that the store no longer holds
GoneFromStore ==
    IF file.exists /\ WellFormed(file.data) THEN KeySet(FromStr(file.data)) \ KeySet(cache) ELSE {}

(* ------------------------------- claims --------------------------------- *)

\* C1: the store never holds more than cap entries, whatever file it was
\* built from and whatever calls were made; a put of a new key into a full
\* store removes exactly one other entry and adds the new one, and a put of
\* a new key into a store that is not full removes none.
C1_CapacityBound ==
    /\ [](Len(cache) <= cap)
    /\ [][(PutStep /\ ~Contains(cache, op'.key)) =>
            /\ Mapping(cache') \ Mapping(cache) = {CacheEntry(op'.key, op'.value)}
            /\ IF Len(cache) = cap
               THEN Cardinality(Mapping(cache) \ Mapping(cache')) = 1
               ELSE Mapping(cache) \subseteq Mapping(cache')]_vars

\* a put of a new key has just pushed another key out of a full store: the
\* snapshot of the store as it was before the put still lists that key
C1_Witness ==
    /\ pc = "open"
    /\ op.result = None
    /\ faults = 0
    /\ lastMut = "put_ok"
    /\ cap = MaxCap
    /\ Len(cache) = cap
    /\ Cardinality(GoneFromStore) = 1

\* C2: whenever a put of a new key evicts an entry, the evicted entry has
\* the smallest stamp, where every touch (LruCache put, get hit, get_mut
\* hit, and each put of the replay in new) stamps its key with the next
\* sequence number.  This covers the stores built without a snapshot file
\* and driven by put and get alone.
C2_LruVictim ==
    [][(PutStep /\ ~Contains(cache, op'.key) /\ Len(cache) = cap) =>
        \A victim \in KeySet(cache) \ KeySet(cache') :
            \A other \in KeySet(cache) \ {victim} : stamp[victim] < stamp[other]]_vars

\* put(apple), put(banana), get(apple), put(pear) on a store of capacity 2
\* built without a file: banana, the first entry of the last snapshot, is
\* evicted although it was put after apple
C2_Witness ==
    /\ pc = "open"
    /\ faults = 0
    /\ clock = 4
    /\ cap = 2
    /\ file.exists
    /\ file.data = ToJson(<<CacheEntry("banana", 1), CacheEntry("apple", 1)>>)
    /\ cache = <<CacheEntry("pear", 1), CacheEntry("apple", 1)>>
    /\ stamp["apple"] = 3
    /\ stamp["banana"] = 0

\* C3: right after a put that returned Ok, the file exists, decodes, and the
\* set of entries it decodes to is the set of entries of the store, whatever
\* came before (failed puts, get_mut, gets, a snapshot with too many entries).
C3_DurabilityAfterPut ==
    (pc = "idle" /\ op.name = "put" /\ ret.status = "ok") =>
        /\ file.exists
        /\ WellFormed(file.data)
        /\ Decoded(file.data) = Mapping(cache)

\* a put returned Ok in a full store after a fault (a failed put or a
\* restart) had left disk and memory apart
C3_Witness ==
    /\ pc = "idle"
    /\ op.name = "put"
    /\ ret.status = "ok"
    /\ faults = 1
    /\ cap = MaxCap
    /\ Len(cache) = cap

\* C4: a store built with the same capacity from the file left by a store
\* whose last change was a successful put answers get, for every key, with
\* what the first store held: the same value for its keys, absent otherwise.
C4_RoundTrip ==
    (/\ op.name = "new"
     /\ ret.status = "ok"
     /\ pc = "idle"
     /\ prev.pc = "idle"
     /\ prev.lastMut = "put_ok"
     /\ prev.cap = cap) =>
        \A k \in Keys : Peek(cache, k) = Peek(prev.cache, k)

\* a full store of two entries was written, the process ended, and a store
\* of the same capacity was built from the file
C4_Witness ==
    /\ op.name = "new"
    /\ ret.status = "ok"
    /\ pc = "idle"
    /\ prev.pc = "idle"
    /\ prev.lastMut = "put_ok"
    /\ prev.cap = cap
    /\ Len(prev.cache) = 2
    /\ Len(cache) = 2

\* C5: while a put persists its snapshot, every step leaves the file at
\* file_path as it was or replaces it by the complete new snapshot, so a
\* reader of file_path sees the old document or the new one at every point.
C5_AtomicReplace ==
    [][InPut => (file' = file \/ (file'.exists /\ file'.data = ToJson(cache)))]_vars

\* the temporary file holds half of the new snapshot while file_path still
\* holds the complete old one
C5_Witness ==
    /\ pc = "write"
    /\ Len(tmp.data) > 0
    /\ Len(tmp.data) < Len(Json)
    /\ file.exists
    /\ WellFormed(file.data)
    /\ Len(file.data) > 2
    /\ file.data # Json

\* C6: put hands LruCache::put's result to its caller: the value the key had
\* before the call, absent for a new key even when the put evicted another
\* entry.  A put on a key of the store replaces its value and leaves the key
\* set and the other values as they were, also in a full store.
C6_PutResult ==
    /\ [][PutStep =>
            LET k == op'.key
            IN /\ op'.result = Peek(cache, k)
               /\ Contains(cache, k) =>
                    /\ KeySet(cache') = KeySet(cache)
                    /\ Len(cache') = Len(cache)
                    /\ Peek(cache', k) = op'.value
                    /\ \A j \in KeySet(cache) \ {k} : Peek(cache', j) = Peek(cache, j)]_vars
    /\ [][(pc = "rename" /\ ret'.status = "ok") => ret'.value = op.result]_vars

\* a successful put replaced the value of a key in a full store and
\* returned the value it replaced
C6_Witness ==
    /\ pc = "idle"
    /\ op.name = "put"
    /\ ret.status = "ok"
    /\ ret.value \in Vals
    /\ ret.value # op.value
    /\ cap = MaxCap
    /\ Len(cache) = cap
    /\ faults = 0

\* C7: get never fails and returns the stored value, absent for a key not in
\* the store; it leaves both files and the key -> value mapping unchanged; a
\* hit moves the key to the front and keeps the order of the others, a miss
\* changes nothing.
C7_GetReadOnly ==
    [][GetStep =>
        LET k == op'.key
        IN /\ ret'.status = "ok"
           /\ \A v \in Vals : (ret'.value = v) <=> (CacheEntry(k, v) \in Mapping(cache))
           /\ (ret'.value = None) <=> (k \notin KeySet(cache))
           /\ file' = file
           /\ tmp' = tmp
           /\ pc' = pc
           /\ cap' = cap
           /\ Mapping(cache') = Mapping(cache)
           /\ IF k \in KeySet(cache)
              THEN cache'[1].key = k /\ Without(cache', k) = Without(cache, k)
              ELSE cache' = cache]_vars

\* a get hit the least recently used of two entries: the store now starts
\* with another key than its last snapshot, which is still on disk
C7_Witness ==
    /\ pc = "idle"
    /\ op.name = "get"
    /\ ret.value \in Vals
    /\ faults = 0
    /\ lastMut = "put_ok"
    /\ Len(cache) = 2
    /\ cache[1].key = op.key
    /\ file.exists
    /\ Decoded(file.data) = Mapping(cache)
    /\ FromStr(file.data)[1].key # op.key

\* C8: a put whose persistence fails returns the error at the failing step
\* (no step is run again), leaves the store as LruCache::put made it, with
\* (key, value) at the front and at most cap entries, and no step of it has
\* changed the file at file_path.
C8_FailedPut ==
    /\ []((op.name = "put" /\ ret.status = "io_error") =>
            /\ pc = "idle"
            /\ Len(cache) >= 1
            /\ Len(cache) <= cap
            /\ cache[1] = CacheEntry(op.key, op.value))
    /\ [][(InPut /\ ret'.status = "io_error") =>
            (pc' = "idle" /\ ret'.step = pc /\ cache' = cache)]_vars
    /\ [][InPut => pc' # "open"]_vars
    /\ [][(PutStep \/ (InPut /\ ret'.status # "ok")) => file' = file]_vars

\* the rename of a put of a new key into a full store failed: the complete
\* new snapshot is in the temporary file, the old one still at file_path,
\* and the store holds the new entry instead of a key of the old snapshot
C8_Witness ==
    /\ op.name = "put"
    /\ ret.status = "io_error"
    /\ ret.step = "rename"
    /\ op.result = None
    /\ cap = MaxCap
    /\ Len(cache) = cap
    /\ tmp.exists
    /\ tmp.data = Json
    /\ Cardinality(GoneFromStore) = 1
    /\ Cardinality(Decoded(file.data)) = cap

\* C9: when the file exists and cannot be opened or read, new returns an
\* error and no store.  (The code takes every failure of File::open for a
\* missing file.)
C9_UnreadableFails ==
    (op.name = "new" /\ file.exists /\ (~file.readable \/ ret.step = "read")) =>
        (ret.status = "io_error" /\ pc = "none")

C11_MissingFile ==
    /\ []((op.name = "new" /\ ~file.exists) =>
            /\ ret.status = "ok"
            /\ pc = "idle"
            /\ cache = <<>>
            /\ cap = op.value)
    /\ [][(NewStep /\ ~file.exists) => (~file'.exists /\ tmp' = tmp)]_vars

\* a first put ended before its rename: new finds no file at file_path and
\* the complete snapshot of that put in the temporary file
C11_Witness ==
    /\ op.name = "new"
    /\ ret.status = "ok"
    /\ pc = "idle"
    /\ ~file.exists
    /\ tmp.exists
    /\ WellFormed(tmp.data)
    /\ Len(tmp.data) > 2
    /\ prev.pc = "rename"

\* the entries of es from the last to the first
Reverse(es) == [i \in 1..Len(es) |-> es[Len(es) + 1 - i]]

\* no key occurs twice in es
DistinctKeys(es) == \A i, j \in 1..Len(es) : es[i].key = es[j].key => i = j

\* C12: a store built from a snapshot of n > capacity entries with distinct
\* keys holds exactly the last capacity entries of the file, in file order
\* with the last entry of the file most recently used.
C12_OverfullReplay ==
    (/\ op.name = "new"
     /\ pc = "idle"
     /\ file.exists
     /\ file.readable
     /\ DistinctKeys(FromStr(file.data))
     /\ Len(FromStr(file.data)) > cap) =>
        LET es == FromStr(file.data)
        IN cache = Reverse(SubSeq(es, Len(es) - cap + 1, Len(es)))

\* a store of capacity 2 built from a snapshot of three keys
C12_Witness ==
    /\ op.name = "new"
    /\ pc = "idle"
    /\ file.exists
    /\ file.readable
    /\ DistinctKeys(FromStr(file.data))
    /\ Len(FromStr(file.data)) = 3
    /\ cap = 2
    /\ Len(cache) = 2

\* the lists that hold the entries of es in some order
Orderings(es) ==
    {[i \in 1..Len(es) |-> es[p[i]]] :
        p \in {q \in [1..Len(es) -> 1..Len(es)] : \A i, j \in 1..Len(es) : q[i] = q[j] => i = j}}

\* C13: the order of the entries in the file means nothing on reload: the
\* store built from a snapshot of at most cap entries with distinct keys and
\* the store built from the same entries in any other order answer every
\* get alike and keep the same keys after every put.  (The code replays in
\* file order, and the order of the replay is the recency order.)
C13_FileOrderIrrelevant ==
    (/\ op.name = "new"
     /\ pc = "idle"
     /\ file.exists
     /\ file.readable
     /\ DistinctKeys(FromStr(file.data))
     /\ Len(FromStr(file.data)) <= cap) =>
        \A es \in Orderings(FromStr(file.data)) :
            LET other == Replay(<<>>, cap, es)
            IN \A k \in Keys :
                /\ Peek(other, k) = Peek(cache, k)
                /\ \A v \in Vals :
                    /\ LruPutResult(other, cap, k, v) = LruPutResult(cache, cap, k, v)
                    /\ KeySet(LruPut(other, cap, k, v)) = KeySet(LruPut(cache, cap, k, v))

\* C14: the store never holds two entries for one key, also when it was
\* built from a file that lists a key more than once, and every snapshot a
\* put has written (complete in the temporary file, or renamed to
\* file_path) lists each key at most once.
C14_NoDuplicateKeys ==
    /\ DistinctKeys(cache)
    /\ pc = "rename" => (WellFormed(tmp.data) /\ DistinctKeys(FromStr(tmp.data)))
    /\ (pc = "idle" /\ op.name = "put" /\ ret.status = "ok") =>
            (WellFormed(file.data) /\ DistinctKeys(FromStr(file.data)))

\* a put has written its snapshot of two entries to the temporary file in
\* a store built from a file that lists a key twice
C14_Witness ==
    /\ pc = "rename"
    /\ file.exists
    /\ WellFormed(file.data)
    /\ ~DistinctKeys(FromStr(file.data))
    /\ Len(FromStr(tmp.data)) = 2
    /\ faults = 0

\* the file at file_path decodes to the entries of the store
DiskIsMemory == file.exists /\ WellFormed(file.data) /\ Decoded(file.data) = Mapping(cache)

DiedInPut == prev.pc \in {"open", "serialize", "write", "rename"}

\* C16: when the process ends at any point of a put, the file at file_path
\* is the complete snapshot from before the put (or still missing) or the
\* complete snapshot of the put, and new on it afterwards succeeds with the
\* entries of that file, whatever the temporary file holds; the next put
\* truncates the temporary file and writes its own snapshot, nothing else,
\* to it.  (A read error of new is a fault of its own.)
C16_CrashConsistency ==
    /\ [](DiedInPut =>
            (~file.exists \/ ~file.readable \/ IsSnapshot(file.data)))
    /\ []((op.name = "new" /\ DiedInPut /\ ret.step # "read") =>
            /\ ret.status = "ok"
            /\ pc = "idle"
            /\ cache = IF file.exists /\ file.readable
                       THEN Replay(<<>>, cap, FromStr(file.data))
                       ELSE <<>>)
    /\ [](pc = "serialize" => tmp.data = <<>>)
    /\ [](pc = "write" => tmp.data = SubSeq(Json, 1, Len(tmp.data)))
    /\ [](pc = "rename" => tmp.data = Json)
    /\ [][InPut => (file' = file \/ (pc = "rename" /\ file'.data = Json))]_vars
    /\ [][(InPut /\ pc' = "none") => (file' = file /\ tmp' = tmp)]_vars

\* the process ended half way through the write of a put: new has loaded
\* the snapshot from before that put, half a snapshot is in the temporary
\* file
C16_Witness ==
    /\ op.name = "new"
    /\ ret.status = "ok"
    /\ pc = "idle"
    /\ prev.pc = "write"
    /\ tmp.exists
    /\ Len(tmp.data) > 0
    /\ ~WellFormed(tmp.data)
    /\ file.exists
    /\ Len(cache) >= 1
    /\ Mapping(cache) # Mapping(prev.cache)

(* ---------------------------- Concurrent Store --------------------------- *)
(* Two threads call put on one shared store.  Each put changes the shared   *)
(* mapping and then dumps the whole of it through the Atomic Writer, in the *)
(* steps of sync_to_file: open and truncate the temporary path, collect and *)
(* serialize the entries, write them, rename.  Nothing orders the steps of  *)
(* one thread against the steps of the other.                               *)

Writers == {1, 2}

\* the key each thread puts: the two puts are on different keys, and the
\* capacity of the store holds both (no put has to evict)
PutKey(w) == IF w = 1 THEN "apple" ELSE "banana"

ConcKeys == {PutKey(w) : w \in Writers}

\* the value the store holds for a key before the puts, and the value put
OldVal == 1
NewVal == 2

\* inode numbers: the file found at start-up and one for each open
Inodes == 1..3

\* a byte of a hole left in a file by a write beyond its end
NUL == <<"0", "", None>>

\* the entries of the shared mapping
StoreEntries(s) == {CacheEntry(k, s[k]) : k \in {j \in DOMAIN s : s[j] # None}}

\* the orders in which an iteration may visit the entries
Iterations(es) ==
    {q \in [1..Cardinality(es) -> es] : \A i, j \in 1..Cardinality(es) : q[i] = q[j] => i = j}

\* a put that builds the mapping anew from its own entry
InsertAlone(s, k, v) == [j \in DOMAIN s |-> IF j = k THEN v ELSE None]

\* insert or update in the shared mapping
Insert(s, k, v) == [s EXCEPT ![k] = v]

\* the content of a file after bytes were written at offset off
Overlay(old, off, bytes) ==
    LET end == off + Len(bytes)
        n == IF Len(old) > end THEN Len(old) ELSE end
    IN [i \in 1..n |->
            IF i > off /\ i <= end THEN bytes[i - off]
            ELSE IF i <= Len(old) THEN old[i]
            ELSE NUL]

\* the content of the file a path names, <<>> when it names none
Content(ino) == IF ino = 0 THEN <<>> ELSE disk.data[ino]

NoWriter == [pc |-> "start", json |-> <<>>, fd |-> 0, off |-> 0, status |-> "none"]

\* the store holds either key or not, as the snapshot at file_path says
ConcInit ==
    /\ store \in [ConcKeys -> {None, OldVal}]
    /\ writers = [w \in Writers |-> NoWriter]
    /\ \E es \in Iterations(StoreEntries(store)) :
          disk = [data |-> [i \in Inodes |-> IF i = 1 THEN ToJson(es) ELSE <<>>],
                  file |-> IF Len(es) = 0 THEN 0 ELSE 1,
                  tmp |-> 0,
                  used |-> IF Len(es) = 0 THEN 0 ELSE 1]
    /\ cache = <<>>
    /\ cap = 0
    /\ pc = "none"
    /\ file = NoFile
    /\ tmp = NoFile
    /\ op = NoOp
    /\ ret = NoRet
    /\ stamp = NoStamp
    /\ clock = 0
    /\ lastMut = "none"
    /\ prev = NoPrev
    /\ faults = 0
    /\ NoPage

\* put: the change of the shared mapping
ConcPut(w) ==
    /\ writers[w].pc = "start"
    /\ store' = Insert(store, PutKey(w), NewVal)
    /\ writers' = [writers EXCEPT ![w].pc = "open"]
    /\ UNCHANGED disk

\* an open that gives every call a temporary file of its own
ConcOpenTmpPrivate(w) ==
    /\ writers[w].pc = "open"
    /\ LET ino == disk.used + 1
       IN /\ disk' = [disk EXCEPT !.data[ino] = <<>>, !.tmp = ino, !.used = ino]
          /\ writers' = [writers EXCEPT ![w].pc = "serialize", ![w].fd = ino, ![w].off = 0]
    /\ UNCHANGED store

\* open of the temporary path with create and truncate: the file the path
\* names is emptied, or a new one is made when it names none
ConcOpenTmp(w) ==
    /\ writers[w].pc = "open"
    /\ LET ino == IF disk.tmp = 0 THEN disk.used + 1 ELSE disk.tmp
       IN /\ disk' = [disk EXCEPT !.data[ino] = <<>>, !.tmp = ino,
                                  !.used = IF disk.tmp = 0 THEN disk.used + 1 ELSE disk.used]
          /\ writers' = [writers EXCEPT ![w].pc = "serialize", ![w].fd = ino, ![w].off = 0]
    /\ UNCHANGED store

\* the dump: the entries of the whole mapping as it is now, serialized
ConcSerialize(w) ==
    /\ writers[w].pc = "serialize"
    /\ \E es \in Iterations(StoreEntries(store)) :
          writers' = [writers EXCEPT ![w].pc = "write", ![w].json = ToJson(es)]
    /\ UNCHANGED <<store, disk>>

\* write_all through the open file, in one or two writes, each at the
\* offset the thread's own file description has reached
ConcWrite(w) ==
    /\ writers[w].pc = "write"
    /\ LET me == writers[w]
       IN \E n \in {m \in Cuts(me.json) : m > me.off} :
            /\ disk' = [disk EXCEPT !.data[me.fd] =
                            Overlay(disk.data[me.fd], me.off, SubSeq(me.json, me.off + 1, n))]
            /\ writers' = [writers EXCEPT ![w].off = n,
                              ![w].pc = IF n = Len(me.json) THEN "rename" ELSE "write"]
    /\ UNCHANGED store

\* rename of the temporary path to file_path: it fails when the temporary
\* path names no file
ConcRename(w) ==
    /\ writers[w].pc = "rename"
    /\ IF disk.tmp = 0
       THEN /\ writers' = [writers EXCEPT ![w].pc = "done", ![w].status = "io_error"]
            /\ UNCHANGED disk
       ELSE /\ disk' = [disk EXCEPT !.file = disk.tmp, !.tmp = 0]
            /\ writers' = [writers EXCEPT ![w].pc = "done", ![w].status = "ok"]
    /\ UNCHANGED store

ConcNext ==
    \/ (\E w \in Writers : ConcPut(w)) /\ UNCHANGED <<vars, pageVars>>
    \/ (\E w \in Writers : ConcOpenTmp(w)) /\ UNCHANGED <<vars, pageVars>>
    \/ (\E w \in Writers : ConcSerialize(w)) /\ UNCHANGED <<vars, pageVars>>
    \/ (\E w \in Writers : ConcWrite(w)) /\ UNCHANGED <<vars, pageVars>>
    \/ (\E w \in Writers : ConcRename(w)) /\ UNCHANGED <<vars, pageVars>>

ConcSpec == ConcInit /\ [][ConcNext]_concVars

\* both puts have returned
AllDone == \A w \in Writers : writers[w].pc = "done"

\* the file at file_path holds the update of thread w
Persisted(w) ==
    /\ disk.file # 0
    /\ WellFormed(Content(disk.file))
    /\ CacheEntry(PutKey(w), NewVal) \in Decoded(Content(disk.file))

\* C17: whatever the interleaving of the two puts, the shared mapping holds
\* both updates once both have returned (and each from its own put on);
\* the file need not: see the witness, where it holds one of them only.
C17_MemoryHoldsBoth ==
    /\ \A w \in Writers : writers[w].pc # "start" => store[PutKey(w)] = NewVal
    /\ AllDone => StoreEntries(store) = {CacheEntry(PutKey(w), NewVal) : w \in Writers}

\* the lost update: both puts have returned, both keys are in memory with
\* their new values, and the file at file_path is a complete snapshot that
\* holds the update of one thread and not that of the other
C17_Witness ==
    /\ AllDone
    /\ \A w \in Writers : store[PutKey(w)] = NewVal
    /\ \E w \in Writers : Persisted(w)
    /\ \E w \in Writers : ~Persisted(w)
    /\ WellFormed(Content(disk.file))

(* ----------------------------- BucketListPage ---------------------------- *)
(* Strings are sequences of characters.  view_indices holds indices from 0, *)
(* as in the code: item i of the code is bucket_items[i + 1] here.          *)

MaxInput == 2

\* the characters of the bucket names, and the characters typed into the
\* filter: k and / are in no name
NameChars == {"j", "o"}
TypedChars == {"j", "k", "o", "/"}

\* byte order of the characters (u8 comparison of str)
Rank(c) == CASE c = "/" -> 47 [] c = "j" -> 106 [] c = "k" -> 107 [] c = "o" -> 111

\* the bucket names used: bucket names are unique in a bucket list
Names == {<<"j">>, <<"o">>, <<"o", "j">>}

\* BucketItem { name }
BucketItem(n) == [name |-> n]

\* the bucket lists: some of the names, each at most once, in any order
BucketLists ==
    {items \in UNION {[1..n -> {BucketItem(m) : m \in Names}] : n \in 0..Cardinality(Names)} :
        \A i, j \in 1..Len(items) : items[i] = items[j] => i = j}

KeyEvents ==
    {"Esc", "Enter", "Backspace", "j", "k", "g", "G", "f", "b", "x", "/", "o", "?"}

SortTypes == <<"Default", "NameAsc", "NameDesc">>

\* str::cmp(a, b) = Less
RECURSIVE StrLess(_, _)
StrLess(a, b) ==
    IF Len(b) = 0 THEN FALSE
    ELSE IF Len(a) = 0 THEN TRUE
    ELSE IF a[1] # b[1] THEN Rank(a[1]) < Rank(b[1])
    ELSE StrLess(Tail(a), Tail(b))

\* str::contains(s, pat)
StrContains(str, pat) ==
    \E i \in 0..(Len(str) - Len(pat)) : SubSeq(str, i + 1, i + Len(pat)) = pat

\* the name of item i
ItemName(i) == bucket_items[i + 1].name

\* the order sort_view_indices sorts by: is index a before index b
Before(sort, a, b) ==
    CASE sort = "Default" -> a < b
      [] sort = "NameAsc" -> StrLess(ItemName(a), ItemName(b))
      [] sort = "NameDesc" -> StrLess(ItemName(b), ItemName(a))

\* v with x put behind the last element that is not after x
RECURSIVE InsertSorted(_, _, _)
InsertSorted(sort, v, x) ==
    IF Len(v) = 0 THEN <<x>>
    ELSE IF Before(sort, x, v[Len(v)]) THEN InsertSorted(sort, SubSeq(v, 1, Len(v) - 1), x) \o <<v[Len(v)]>>
    ELSE v \o <<x>>

\* a sort_view_indices that leaves the order of view_indices as it is
Unsorted(sort, v) == v

\* sort_view_indices: a stable sort of view_indices by the selected type
RECURSIVE Sorted(_, _)
Sorted(sort, v) ==
    IF Len(v) = 0 THEN <<>>
    ELSE InsertSorted(sort, Sorted(sort, SubSeq(v, 1, Len(v) - 1)), v[Len(v)])

\* the filter of filter_view_indices, on a name that starts with the text
\* instead of one that contains it
MatchingPrefix(input) ==
    SelectSeq([i \in 1..Len(bucket_items) |-> i - 1],
              LAMBDA i : Len(input) <= Len(ItemName(i))
                         /\ SubSeq(ItemName(i), 1, Len(input)) = input)

\* the filter of filter_view_indices: the indices, in index order, of the
\* items whose name contains the text
Matching(input) ==
    SelectSeq([i \in 1..Len(bucket_items) |-> i - 1],
              LAMBDA i : StrContains(ItemName(i), input))

\* ScrollListState::new(total)
ScrollListState(total) == [selected |-> 0, total |-> total]

\* the page fields kept in was
Snapshot ==
    [view_state |-> view_state, sort |-> sort_dialog_state,
     input |-> filter_input_state, key |-> key, view_indices |-> view_indices]

\* BucketListPage::new
PageInit ==
    /\ bucket_items \in BucketLists
    /\ view_indices = [i \in 1..Len(bucket_items) |-> i - 1]
    /\ view_state = "Default"
    /\ list_state = ScrollListState(Len(bucket_items))
    /\ filter_input_state = <<>>
    /\ sort_dialog_state = "Default"
    /\ tx = "none"
    /\ key = "none"
    /\ was = [view_state |-> "none", sort |-> "none", input |-> <<>>, key |-> "none",
              view_indices |-> <<>>]
    /\ cache = <<>>
    /\ cap = 0
    /\ pc = "none"
    /\ file = NoFile
    /\ tmp = NoFile
    /\ op = NoOp
    /\ ret = NoRet
    /\ stamp = NoStamp
    /\ clock = 0
    /\ lastMut = "none"
    /\ prev = NoPrev
    /\ faults = 0
    /\ NoConcurrentStore

\* the fields of the page after a method, and the event it sent
Becomes(vs, input, sort, v, ls, ev) ==
    /\ view_state' = vs
    /\ filter_input_state' = input
    /\ sort_dialog_state' = sort
    /\ view_indices' = v
    /\ list_state' = ls
    /\ tx' = ev

\* a guard that lets every key through
always_non_empty == TRUE

non_empty == Len(view_indices) > 0

\* self.tx.send(ev)
send(ev) ==
    Becomes(view_state, filter_input_state, sort_dialog_state, view_indices, list_state, ev)

\* a match arm that does nothing
ignore == send("none")

\* filter_view_indices, entered with view state vs and filter text input:
\* the matching indices, a new list state, then sort_view_indices
filter_view_indices(vs, input) ==
    Becomes(vs, input, sort_dialog_state, Sorted(sort_dialog_state, Matching(input)),
            ScrollListState(Len(Matching(input))), "none")

\* sort_view_indices, entered with view state vs and sort type sort
sort_view_indices(vs, sort) ==
    Becomes(vs, filter_input_state, sort, Sorted(sort, view_indices), list_state, "none")

open_filter_dialog ==
    Becomes("FilterDialog", filter_input_state, sort_dialog_state, view_indices, list_state, "none")

\* reset_filter: clear_input, then filter_view_indices
reset_filter(vs) == filter_view_indices(vs, <<>>)

\* a close_filter_dialog that leaves out reset_filter
close_filter_dialog_keep ==
    Becomes("Default", filter_input_state, sort_dialog_state, view_indices, list_state, "none")

close_filter_dialog == reset_filter("Default")

apply_filter == filter_view_indices("Default", filter_input_state)

open_sort_dialog ==
    Becomes("SortDialog", filter_input_state, sort_dialog_state, view_indices, list_state, "none")

\* a close_sort_dialog that leaves out sort_dialog_state.reset()
close_sort_dialog_keep == sort_view_indices("Default", sort_dialog_state)

\* close_sort_dialog: sort_dialog_state.reset(), then sort_view_indices
close_sort_dialog == sort_view_indices("Default", "Default")

apply_sort == sort_view_indices("Default", sort_dialog_state)

\* position of a sort type in the dialog
SortIndex(sort) == CHOOSE i \in 1..Len(SortTypes) : SortTypes[i] = sort

\* BucketListSortDialogState::select_next / select_prev: the next or the
\* previous type; at the last (first) type the highlight stays or goes
\* round to the other end
SortAfter(sort) ==
    IF SortIndex(sort) < Len(SortTypes) THEN {SortTypes[SortIndex(sort) + 1]}
    ELSE {sort, SortTypes[1]}

SortBefore(sort) ==
    IF SortIndex(sort) > 1 THEN {SortTypes[SortIndex(sort) - 1]}
    ELSE {sort, SortTypes[Len(SortTypes)]}

select_next_sort_item ==
    \E sort \in SortAfter(sort_dialog_state) : sort_view_indices("SortDialog", sort)

select_prev_sort_item ==
    \E sort \in SortBefore(sort_dialog_state) : sort_view_indices("SortDialog", sort)

\* InputDialogState::handle_key_event: a character is added at the end of
\* the text, Backspace takes the last one away
Typed(input, k) ==
    IF k = "Backspace" THEN SubSeq(input, 1, Len(input) - 1)
    ELSE input \o <<k>>

\* ScrollListState: the rows a move of the selection can reach.  Next and
\* previous stay or go round at the ends; a page is as long as the list is
\* high on the screen, which the page does not know
Rows(k) ==
    LET last == list_state.total - 1
        sel == list_state.selected
    IN CASE k = "j" -> IF sel < last THEN {sel + 1} ELSE {sel, 0}
         [] k = "k" -> IF sel > 0 THEN {sel - 1} ELSE {sel, last}
         [] k = "g" -> {0}
         [] k = "G" -> {last}
         [] k = "f" -> sel..last \cup {0}
         [] k = "b" -> 0..sel \cup {last}

\* select_next, select_prev, select_first, select_last, select_next_page,
\* select_prev_page
select(k) ==
    \E row \in Rows(k) :
        Becomes(view_state, filter_input_state, sort_dialog_state, view_indices,
                [list_state EXCEPT !.selected = row], "none")

\* what handle_key does around its match: the key is noted
handled(k) ==
    /\ key' = k
    /\ was' = Snapshot
    /\ UNCHANGED bucket_items

\* handle_key, ViewState::Default
handle_key_Default(k) ==
    /\ view_state = "Default"
    /\ handled(k)
    /\ CASE k = "Esc" ->
              IF filter_input_state = <<>> THEN send("Quit") ELSE reset_filter("Default")
         [] k = "Enter" /\ non_empty -> send("BucketListMoveDown")
         [] k \in {"j", "k", "g", "G", "f", "b"} /\ non_empty -> select(k)
         [] k = "x" /\ non_empty -> send("BucketListOpenManagementConsole")
         [] k = "/" -> open_filter_dialog
         [] k = "o" -> open_sort_dialog
         [] k = "?" -> send("OpenHelp")
         [] OTHER -> ignore

\* a filter dialog in which o is the command it is in the default view
handle_key_FilterDialog_command(k) ==
    /\ view_state = "FilterDialog"
    /\ k \in {"Esc", "Enter", "?", "Backspace"} \cup TypedChars
    /\ k \in TypedChars => Len(filter_input_state) < MaxInput
    /\ handled(k)
    /\ CASE k = "Esc" -> close_filter_dialog
         [] k = "Enter" -> apply_filter
         [] k = "?" -> send("OpenHelp")
         [] k = "o" -> open_sort_dialog
         [] OTHER -> filter_view_indices("FilterDialog", Typed(filter_input_state, k))

\* handle_key, ViewState::FilterDialog; the text typed is at most MaxInput long
handle_key_FilterDialog(k) ==
    /\ view_state = "FilterDialog"
    /\ k \in {"Esc", "Enter", "?", "Backspace"} \cup TypedChars
    /\ k \in TypedChars => Len(filter_input_state) < MaxInput
    /\ handled(k)
    /\ CASE k = "Esc" -> close_filter_dialog
         [] k = "Enter" -> apply_filter
         [] k = "?" -> send("OpenHelp")
         [] OTHER -> filter_view_indices("FilterDialog", Typed(filter_input_state, k))

\* handle_key, ViewState::SortDialog
handle_key_SortDialog(k) ==
    /\ view_state = "SortDialog"
    /\ handled(k)
    /\ CASE k = "Esc" -> close_sort_dialog
         [] k = "j" -> select_next_sort_item
         [] k = "k" -> select_prev_sort_item
         [] k = "Enter" -> apply_sort
         [] k = "?" -> send("OpenHelp")
         [] OTHER -> ignore

PageNext ==
    \/ (\E k \in KeyEvents : handle_key_Default(k)) /\ UNCHANGED <<vars, concVars>>
    \/ (\E k \in KeyEvents : handle_key_FilterDialog(k)) /\ UNCHANGED <<vars, concVars>>
    \/ (\E k \in KeyEvents : handle_key_SortDialog(k)) /\ UNCHANGED <<vars, concVars>>

PageSpec == PageInit /\ [][PageNext]_pageVars

\* C18: after any sequence of keys, view_indices holds exactly the indices
\* of the items whose name contains the filter text, each once, in the
\* order of the selected sort type: by index for Default, by name for
\* NameAsc, by name backwards for NameDesc.
C18_FilterSortProjection ==
    LET v == view_indices
    IN /\ {v[i] : i \in 1..Len(v)} =
            {i \in 0..(Len(bucket_items) - 1) : StrContains(ItemName(i), filter_input_state)}
       /\ \A i, j \in 1..Len(v) : v[i] = v[j] => i = j
       /\ \A i, j \in 1..Len(v) : i < j =>
            CASE sort_dialog_state = "Default" -> v[i] < v[j]
              [] sort_dialog_state = "NameAsc" -> ~StrLess(ItemName(v[j]), ItemName(v[i]))
              [] sort_dialog_state = "NameDesc" -> ~StrLess(ItemName(v[i]), ItemName(v[j]))

\* a filter that leaves two of three items was applied with NameDesc
\* selected: the item with the larger index comes first
C18_Witness ==
    /\ view_state = "Default"
    /\ key = "Enter"
    /\ was.view_state = "FilterDialog"
    /\ sort_dialog_state = "NameDesc"
    /\ filter_input_state # <<>>
    /\ Len(bucket_items) = 3
    /\ Len(view_indices) = 2
    /\ view_indices[1] > view_indices[2]

\* v is in the order of sort type sort
OrderedBy(sort, v) ==
    \A i, j \in 1..Len(v) : i < j =>
        CASE sort = "Default" -> v[i] < v[j]
          [] sort = "NameAsc" -> StrLess(ItemName(v[i]), ItemName(v[j]))
          [] sort = "NameDesc" -> StrLess(ItemName(v[j]), ItemName(v[i]))

\* the elements of v
Range(v) == {v[i] : i \in 1..Len(v)}

\* C19: in the sort dialog, j and k move the highlight to the next and the
\* previous sort type and the view is at once in the order of the type now
\* highlighted; Enter closes the dialog and keeps type and view; Esc closes
\* it and puts the sort type back to Default, the view in index order, also
\* when another type had been applied with Enter before.  None of these
\* keys changes the filter text or the set of items shown.
C19_SortDialogKeys ==
    (was.view_state = "SortDialog" /\ key \in {"j", "k", "Enter", "Esc"}) =>
        /\ filter_input_state = was.input
        /\ Range(view_indices) = Range(was.view_indices)
        /\ Len(view_indices) = Len(was.view_indices)
        /\ OrderedBy(sort_dialog_state, view_indices)
        /\ view_state = IF key \in {"j", "k"} THEN "SortDialog" ELSE "Default"
        /\ (key = "j" /\ was.sort = "Default") => sort_dialog_state = "NameAsc"
        /\ (key = "j" /\ was.sort = "NameAsc") => sort_dialog_state = "NameDesc"
        /\ (key = "k" /\ was.sort = "NameDesc") => sort_dialog_state = "NameAsc"
        /\ (key = "k" /\ was.sort = "NameAsc") => sort_dialog_state = "Default"
        /\ key = "Enter" => (sort_dialog_state = was.sort /\ view_indices = was.view_indices)
        /\ key = "Esc" => sort_dialog_state = "Default"

\* the dialog was opened with NameDesc highlighted, as an earlier Enter had
\* left it, over a filtered view of two items, and closed with Esc: the two
\* items are back in index order and the filter text is as it was
C19_Witness ==
    /\ key = "Esc"
    /\ was.view_state = "SortDialog"
    /\ was.key = "o"
    /\ was.sort = "NameDesc"
    /\ view_state = "Default"
    /\ sort_dialog_state = "Default"
    /\ filter_input_state # <<>>
    /\ Len(view_indices) = 2
    /\ view_indices # was.view_indices

\* every item is shown, in the order of the selected sort type
AllShown ==
    /\ Range(view_indices) = 0..(Len(bucket_items) - 1)
    /\ Len(view_indices) = Len(bucket_items)
    /\ OrderedBy(sort_dialog_state, view_indices)

\* C20: Esc in the filter dialog gives the default view with an empty
\* filter text and every item shown, in the order of the sort type, which
\* it keeps, also when a filter had been applied with Enter before; Esc in
\* the default view with a filter text clears the text, shows every item
\* and sends no Quit; Quit is sent by Esc in the default view with an empty
\* filter text and by no other key.
C20_EscAndFilter ==
    /\ (key = "Esc" /\ was.view_state = "FilterDialog") =>
            /\ view_state = "Default"
            /\ filter_input_state = <<>>
            /\ AllShown
            /\ sort_dialog_state = was.sort
            /\ tx = "none"
    /\ (key = "Esc" /\ was.view_state = "Default" /\ was.input # <<>>) =>
            /\ view_state = "Default"
            /\ filter_input_state = <<>>
            /\ AllShown
            /\ sort_dialog_state = was.sort
            /\ tx = "none"
    /\ tx = "Quit" <=> (key = "Esc" /\ was.view_state = "Default" /\ was.input = <<>>)

\* the filter dialog was opened again over a filter that an earlier Enter
\* had applied and that hid an item, with a sort type other than Default,
\* and closed with Esc
C20_Witness ==
    /\ key = "Esc"
    /\ was.view_state = "FilterDialog"
    /\ was.key = "/"
    /\ was.input # <<>>
    /\ Len(was.view_indices) < Len(bucket_items)
    /\ view_state = "Default"
    /\ filter_input_state = <<>>
    /\ sort_dialog_state = "NameAsc"
    /\ Len(view_indices) = 3
    /\ ~OrderedBy("Default", view_indices)

\* thread w has the temporary file open and its rename ahead
Persisting(w) == writers[w].pc \in {"serialize", "write", "rename"}

\* C21: two threads that persist at the same time use one temporary path:
\* while both have their rename ahead and the path names a file, both write
\* to that one file; a rename fails only when the path names no file, which
\* is after the other thread renamed it away.  (That the file renamed to
\* file_path then is not the snapshot of the thread that renamed it, and
\* that the other thread has its rename still ahead with the temporary
\* file gone, is the state of the witness.)
C21_SharedTmp ==
    /\ ((\A w \in Writers : Persisting(w)) /\ disk.tmp # 0) =>
            \A w \in Writers : writers[w].fd = disk.tmp
    /\ \A w \in Writers :
            writers[w].status = "io_error" =>
                /\ disk.tmp = 0
                /\ \E o \in Writers \ {w} : writers[o].pc = "done" /\ writers[o].status = "ok"

\* thread w wrote its snapshot, thread o then truncated the temporary file
\* and has written half of its own; the rename of w has put that file at
\* file_path: it holds the first half of the snapshot of o and nothing of
\* the snapshot of w, and o has the rest of its write and its rename ahead
\* with no temporary file left
C21_Witness ==
    \E w, o \in Writers :
        /\ w # o
        /\ writers[w].pc = "done"
        /\ writers[w].status = "ok"
        /\ writers[o].pc = "write"
        /\ writers[o].off > 0
        /\ writers[o].fd = disk.file
        /\ disk.tmp = 0
        /\ Content(disk.file) = SubSeq(writers[o].json, 1, writers[o].off)
        /\ ~WellFormed(Content(disk.file))
        /\ Content(disk.file) # writers[w].json

\* the process ended with the store at rest and a successful put as the
\* last change of its entries (until the first call on the next store)
Restarted == prev.pc = "idle" /\ prev.lastMut = "put_ok"

\* the last n entries of es, all of es when it has no more than n
LastOf(es, n) == IF Len(es) <= n THEN es ELSE SubSeq(es, Len(es) - n + 1, Len(es))

\* C22 as stated: the store new builds with the same capacity holds the
\* entries in the reverse of the recency order the store had before the
\* restart.
C22_ReverseOfMemory ==
    Restarted => Replay(<<>>, prev.cap, FromStr(file.data)) = Reverse(prev.cache)

\* C22: a successful put leaves the entries at file_path in the order of
\* the store, most recently used first.  After a restart the file holds
\* the entries the store had, in their recency order at that put (gets and
\* get_mut hits after it are in memory only), and new with a capacity n
\* builds the last n entries of the file in reverse order.  So with the
\* capacity as before the store is the snapshot reversed, and the first put
\* of a new key then evicts the first entry of the snapshot; with a smaller
\* capacity the entries kept are the last of the snapshot, the least
\* recently used at that put.
C22_ReverseOfSnapshot ==
    /\ (pc = "idle" /\ op.name = "put" /\ ret.status = "ok") =>
            (FromStr(file.data) = cache /\ cache[1].key = op.key)
    /\ Restarted =>
            LET es == FromStr(file.data)
            IN /\ file.exists
               /\ DistinctKeys(es)
               /\ Mapping(es) = Mapping(prev.cache)
               /\ \A n \in 1..prev.cap : Replay(<<>>, n, es) = Reverse(LastOf(es, n))
               /\ Len(es) = prev.cap =>
                    \A k \in Keys \ KeySet(es) : \A v \in Vals :
                        KeySet(es) \ KeySet(LruPut(Replay(<<>>, prev.cap, es), prev.cap, k, v))
                            = {es[1].key}
    /\ (Restarted /\ op.name = "new" /\ pc = "idle") =>
            cache = Reverse(LastOf(FromStr(file.data), cap))

\* a full store of two entries was written by a put, the process ended,
\* and new has built a store of the same capacity: it holds the two
\* entries in the reverse order
C22_Witness ==
    /\ Restarted
    /\ op.name = "new"
    /\ pc = "idle"
    /\ prev.cap = 2
    /\ cap = 2
    /\ Len(prev.cache) = 2
    /\ FromStr(file.data) = prev.cache
    /\ cache = Reverse(prev.cache)

\* the keys of c in the order of c
KeyOrder(c) == [i \in 1..Len(c) |-> c[i].key]

\* C23: get_mut on a key of the store returns its value and moves the key
\* to the front, keeping the order of the others, as get does, whether or
\* not the caller then changes the value; a put of a new key right after it
\* does not evict that key when the store holds another entry.  get_mut on
\* a key the store does not hold returns absent and changes nothing.
C23_GetMutTouches ==
    [][(op'.name = "get_mut") =>
        LET k == op'.key
        IN IF Contains(cache, k)
           THEN /\ ret' = Ok(Peek(cache, k))
                /\ KeyOrder(cache') = KeyOrder(LruGet(cache, k))
                /\ cache'[1].key = k
                /\ \A j \in KeySet(cache) \ {k} : Peek(cache', j) = Peek(cache, j)
                /\ Len(cache') >= 2 =>
                    \A j \in Keys \ KeySet(cache') : \A v \in Vals :
                        Contains(LruPut(cache', cap, j, v), k)
           ELSE /\ ret' = Ok(None)
                /\ cache' = cache
                /\ stamp' = stamp
                /\ lastMut' = lastMut
                /\ file' = file
                /\ tmp' = tmp]_vars

\* get_mut hit the least recently used of the two entries of a full store
\* and the caller left the value as it was: the key is at the front, and
\* the last snapshot, still on disk, lists it last
C23_Witness ==
    /\ pc = "idle"
    /\ op.name = "get_mut"
    /\ ret.value \in Vals
    /\ lastMut = "put_ok"
    /\ cap = 2
    /\ Len(cache) = 2
    /\ cache[1].key = op.key
    /\ FromStr(file.data) = Reverse(cache)

\* C24: the view state starts as Default.  It changes from Default to
\* FilterDialog on / and to SortDialog on o, from either dialog to Default
\* on Esc and on Enter, and in no other way: never from one dialog to the
\* other.  In the filter dialog every key but Esc, Enter and ? goes to the
\* filter text (/, o, j and k as well): the dialog stays open, the text is
\* the text before with the character added (or the last one removed by
\* Backspace), the view shows the items that match it, and no event is
\* sent.
C24_ViewStateMachine ==
    /\ was.view_state = "none" => (view_state = "Default" /\ key = "none")
    /\ was.view_state = "Default" =>
            view_state = CASE key = "/" -> "FilterDialog"
                           [] key = "o" -> "SortDialog"
                           [] OTHER -> "Default"
    /\ was.view_state \in {"FilterDialog", "SortDialog"} =>
            view_state = IF key \in {"Esc", "Enter"} THEN "Default" ELSE was.view_state
    /\ (was.view_state = "FilterDialog" /\ key \notin {"Esc", "Enter", "?"}) =>
            /\ filter_input_state =
                    IF key = "Backspace"
                    THEN SubSeq(was.input, 1, Len(was.input) - 1)
                    ELSE Append(was.input, key)
            /\ Range(view_indices) =
                    {i \in 0..(Len(bucket_items) - 1) : StrContains(ItemName(i), filter_input_state)}
            /\ sort_dialog_state = was.sort
            /\ tx = "none"

\* in the filter dialog, o was typed after /: the text is /o, which no
\* name contains, and the dialog is still open over an empty view
C24_Witness ==
    /\ view_state = "FilterDialog"
    /\ was.view_state = "FilterDialog"
    /\ key = "o"
    /\ was.key = "/"
    /\ filter_input_state = <<"/", "o">>
    /\ Len(bucket_items) = 3
    /\ view_indices = <<>>

\* current_selected_item: the item of the selected row as a sequence of
\* one item, the empty sequence where the code panics (the row is not in
\* view_indices, or its index is not in bucket_items)
current_selected_item ==
    IF list_state.selected >= Len(view_indices) THEN <<>>
    ELSE IF view_indices[list_state.selected + 1] >= Len(bucket_items) THEN <<>>
    ELSE <<bucket_items[view_indices[list_state.selected + 1] + 1]>>

\* C25: BucketListMoveDown and BucketListOpenManagementConsole are sent
\* only while view_indices is not empty; with an empty view the keys j, k,
\* g, G, f and b in the default view change nothing; the list state counts
\* as many rows as view_indices is long, in every state, and the selected
\* row is one of them, so the item looked up for an event that was sent
\* exists.
C25_EmptyViewGuard ==
    /\ list_state.total = Len(view_indices)
    /\ list_state.selected < Len(view_indices) \/ list_state = ScrollListState(0)
    /\ tx \in {"BucketListMoveDown", "BucketListOpenManagementConsole"} =>
            /\ Len(view_indices) > 0
            /\ was.view_state = "Default"
            /\ view_indices = was.view_indices
            /\ Len(current_selected_item) = 1
            /\ current_selected_item[1] \in Range(bucket_items)
    /\ (/\ was.view_state = "Default"
        /\ was.view_indices = <<>>
        /\ key \in {"j", "k", "g", "G", "f", "b", "Enter", "x"}) =>
            /\ view_state = "Default"
            /\ view_indices = <<>>
            /\ list_state = ScrollListState(0)
            /\ filter_input_state = was.input
            /\ sort_dialog_state = was.sort
            /\ tx = "none"

\* x was pressed in the default view over a filter that no item of three
\* matches: nothing was sent and the empty view is as it was
C25_Witness ==
    /\ key = "x"
    /\ was.view_state = "Default"
    /\ was.view_indices = <<>>
    /\ was.key = "Enter"
    /\ Len(bucket_items) = 3
    /\ filter_input_state # <<>>
    /\ view_indices = <<>>
    /\ tx = "none"

====
